---- MODULE Spec2Model ----
(***************************************************************************)
(* Cold email generator: the Portfolio store (src/portfolio.py), the       *)
(* extraction/generation client (src/chains.py) and the Streamlit run that *)
(* drives them (src/main.py).                                              *)
(*                                                                         *)
(* Text is modelled as a sequence of tokens.  A token is an atom of the    *)
(* text ("Links:", "https://", a word) or the single blank " ", so that    *)
(* rendering, str(), strip(), join() and the regular expression search are *)
(* computed on the text and not assumed.                                   *)
(***************************************************************************)
EXTENDS Integers, Sequences, FiniteSets, TLC

VARIABLES
    collection,  \* the persistent chroma collection "portfolio": sequence of documents
    nextKey,     \* source of uuid.uuid4(): the next unused key
    pc,          \* position of the UI session's script run
    table,       \* st.session_state.portfolio_data, the argument of load_custom_portfolio
    idx,         \* position of the iterrows() loop of load_custom_portfolio
    oldDocs,     \* the collection as it was when load_custom_portfolio was called
    lastLoad,    \* how the last load_custom_portfolio call ended
    button,      \* generate_email_button of this run
    url,         \* url_input of this run is non-empty
    jobs,        \* the list extract_jobs returned
    job,         \* index of the job the for loop is at
    links,       \* what query_links returned for the current job
    calls,       \* the calls of this run to the page fetch, extract_jobs, query_links, write_mail
    shown,       \* the st.error / st.warning messages of this run
    boot,        \* what the last Portfolio() construction read and found
    obs          \* the query_links call of another session since the UI session's last step

vars == <<collection, nextKey, pc, table, idx, oldDocs, lastLoad, button, url,
          jobs, job, links, calls, shown, boot, obs>>

----------------------------------------------------------------------------
(* Bounds of the model *)

MaxRows == 2
MaxDocs == 4
MaxSkills == 2
MaxJobs == 2
MaxKeys == 2

(* n_results of the collection query *)
N_RESULTS == 3

----------------------------------------------------------------------------
(* Text *)

SP == " "

RECURSIVE LStrip(_)
LStrip(s) == IF s # <<>> /\ Head(s) = SP THEN LStrip(Tail(s)) ELSE s

RECURSIVE RStrip(_)
RStrip(s) ==
    IF s # <<>> /\ s[Len(s)] = SP THEN RStrip(SubSeq(s, 1, Len(s) - 1)) ELSE s

\* str.strip()
Strip(s) == RStrip(LStrip(s))

\* sep.join(parts)
RECURSIVE Join(_, _)
Join(parts, sep) ==
    IF parts = <<>> THEN <<>>
    ELSE IF Len(parts) = 1 THEN parts[1]
    ELSE parts[1] \o sep \o Join(Tail(parts), sep)

\* str(list of str): "['a', 'b']"
RECURSIVE ReprItems(_)
ReprItems(texts) ==
    IF texts = <<>> THEN <<>>
    ELSE <<"'">> \o texts[1] \o <<"'">>
         \o (IF Len(texts) > 1 THEN <<",", SP>> ELSE <<>>)
         \o ReprItems(Tail(texts))

ReprList(texts) == <<"[">> \o ReprItems(texts) \o <<"]">>

Schemes == {"http://", "https://"}

\* the position where  Links: (https?://\S+)  matches at i
MatchesAt(s, i) ==
    /\ i + 3 <= Len(s)
    /\ s[i] = "Links:"
    /\ s[i + 1] = SP
    /\ s[i + 2] \in Schemes
    /\ s[i + 3] # SP

\* the end of the greedy \S+ run that starts at position i
RECURSIVE RunEnd(_, _)
RunEnd(s, i) == IF i < Len(s) /\ s[i + 1] # SP THEN RunEnd(s, i + 1) ELSE i

\* re.search(r'Links: (https?://\S+)', s): the leftmost match and its group(1)
SearchLink(s) ==
    LET hits == {i \in 1..Len(s) : MatchesAt(s, i)}
    IN  IF hits = {} THEN [found |-> FALSE, group |-> <<>>]
        ELSE LET i == CHOOSE k \in hits : \A m \in hits : k <= m
             IN  [found |-> TRUE, group |-> SubSeq(s, i + 2, RunEnd(s, i + 3))]

----------------------------------------------------------------------------
(* Tables and documents *)

Row(t, l) == [Techstack |-> t, Links |-> l]

\* the rows of the default CSV
DefaultTable ==
    << Row(<<"React", SP, "|", SP, "Node.js">>, <<"https://", "example.com/react-project">>),
       Row(<<"Python", SP, "|", SP, "Django", SP, "|", SP, "SQL">>,
           <<"https://", "example.com/python-project">>) >>

\* a row whose link is no http(s) URL
OddRow == Row(<<"Go", SP, "|", SP, "Kubernetes">>, <<"ftp://", "b.example/y">>)

\* the rows tables are made of
Rows == {DefaultTable[2], OddRow}

SeqsUpTo(S, n) == UNION {[1..k -> S] : k \in 0..n}

GoodColumns == <<"Techstack", "Links">>

ColumnLists == {GoodColumns, <<"Links", "Techstack">>, <<"Tech", "Link">>}

\* what may be handed to load_custom_portfolio: a DataFrame, or something else
NotAFrame == [kind |-> "other", columns |-> <<>>, rows |-> <<>>]

Frames(n) == [kind : {"frame"}, columns : ColumnLists, rows : SeqsUpTo(Rows, n)]

\* None: st.session_state.portfolio_data before a table is committed
NoTable == [kind |-> "none", columns |-> <<>>, rows |-> <<>>]

\* f"Techstack: {row['Techstack']}, Links: {row['Links']}"
Render(row) ==
    <<"Techstack:", SP>> \o row.Techstack \o <<",", SP, "Links:", SP>> \o row.Links

\* the document collection.add stores for a row under key k
Doc(k, row) == [id |-> k, document |-> Render(row), techstack |-> row.Techstack]

\* the documents of rows[1..n] under the keys k, k+1, ...
DocsOf(rows, n, k) == [i \in 1..n |-> Doc(k + i - 1, rows[i])]

Ids(docs) == {docs[i].id : i \in 1..Len(docs)}

----------------------------------------------------------------------------
(* query_links *)

Entry(k, v) == [kind |-> k, val |-> v]

\* the entries a skills list may hold: strings (valid, empty, blank, padded),
\* None, and a number
StringEntries ==
    {Entry("str", <<"Python">>), Entry("str", <<>>), Entry("str", <<SP, SP>>),
     Entry("str", <<SP, "Go", SP>>)}

SkillEntries == StringEntries \cup {Entry("none", <<>>), Entry("int", <<"42">>)}

\* the skills argument: one string, a list, or None
SkillsInputs(n) ==
    {[kind |-> "str", items |-> <<e>>] : e \in StringEntries}
    \cup {[kind |-> "list", items |-> s] : s \in SeqsUpTo(SkillEntries, n)}

NullSkills == [kind |-> "none", items |-> <<>>]

\* bool(skill)
Truthy(e) ==
    CASE e.kind = "str" -> e.val # <<>>
      [] e.kind = "int" -> e.val # <<"0">>
      [] OTHER -> FALSE

\* str(skill)
Str(e) == IF e.kind = "none" THEN <<"None">> ELSE e.val

\* [str(skill).strip() for skill in skills if skill]
RECURSIVE Comprehension(_)
Comprehension(items) ==
    IF items = <<>> THEN <<>>
    ELSE (IF Truthy(items[1]) THEN <<Strip(Str(items[1]))>> ELSE <<>>)
         \o Comprehension(Tail(items))

\* the normalisation of the skills argument (a str is wrapped in a list)
NormalizeSkills(skills) == Comprehension(skills.items)

\* " OR ".join(skills)
QueryString(norm) == Join(norm, <<SP, "OR", SP>>)

Injective(f) == \A a, b \in DOMAIN f : f[a] = f[b] => a = b

Min(a, b) == IF a < b THEN a ELSE b

\* collection.query(query_texts=[q], n_results=n) when it succeeds: the n nearest
\* documents in rank order.  The embedding decides the rank; any order can come back.
StoreQuery(coll, n) ==
    LET k == Min(n, Len(coll))
    IN  {[i \in 1..k |-> coll[r[i]]] : r \in {f \in [1..k -> 1..Len(coll)] : Injective(f)}}

Texts(docs) == [i \in 1..Len(docs) |-> docs[i].document]

\* results['documents']: one list of documents per query text
ResultDocuments(ranked) == <<Texts(ranked)>>

\* fault: a document list without a match contributes an empty link
RECURSIVE ExtractLinksBlankOnMiss(_)
ExtractLinksBlankOnMiss(documents) ==
    IF documents = <<>> THEN <<>>
    ELSE LET doc == documents[1]
             m == SearchLink(ReprList(doc))
         IN  (IF doc # <<>> THEN <<m.group>> ELSE <<>>)
             \o ExtractLinksBlankOnMiss(Tail(documents))

\* the loop over results.get('documents', [])
RECURSIVE ExtractLinks(_)
ExtractLinks(documents) ==
    IF documents = <<>> THEN <<>>
    ELSE LET doc == documents[1]
             m == SearchLink(ReprList(doc))
         IN  (IF doc # <<>> /\ m.found THEN <<m.group>> ELSE <<>>)
             \o ExtractLinks(Tail(documents))

Outcome(r, q, f, d, l) ==
    [raised |-> r, issued |-> q, failed |-> f, ranked |-> d, links |-> l]

\* iterating over a skills argument that is None: TypeError, outside the try
NotIterable == Outcome(TRUE, <<>>, FALSE, <<>>, <<>>)

\* if not skills: return []
NoSkills == Outcome(FALSE, <<>>, FALSE, <<>>, <<>>)

\* fault: the store's exception is not caught
StoreFailureRaises(q) == Outcome(TRUE, <<q>>, TRUE, <<>>, <<>>)

\* except Exception: print, return []
StoreFailure(q) == Outcome(FALSE, <<q>>, TRUE, <<>>, <<>>)

\* the try body
StoreAnswer(q, ranked) ==
    Outcome(FALSE, <<q>>, FALSE, ranked, ExtractLinks(ResultDocuments(ranked)))

\* every way query_links(skills) can end on the collection coll
QueryLinks(coll, skills) ==
    IF skills.kind = "none" THEN {NotIterable}
    ELSE LET norm == NormalizeSkills(skills)
             q == QueryString(norm)
         IN  IF norm = <<>> THEN {NoSkills}
             ELSE {StoreFailure(q)}
                  \cup {StoreAnswer(q, ranked) : ranked \in StoreQuery(coll, N_RESULTS)}

NoBoot == [made |-> FALSE, data |-> <<>>, was |-> <<>>, ok |-> FALSE]

NoObs == [made |-> FALSE, skills |-> NullSkills, out |-> NoSkills, view |-> <<>>,
          during |-> "idle"]

\* fault: the store drops the documents it has returned
QueriedConsumes(coll, o) == SelectSeq(coll, LAMBDA d : d.id \notin Ids(o.ranked))

\* the collection after query_links: its only store call is collection.query,
\* which reads; no add, delete or update on any path
Queried(coll, o) == coll

\* a query_links call of another session, its argument drawn from inputs
Query(inputs) ==
    /\ \E s \in inputs : \E o \in QueryLinks(collection, s) :
         /\ obs' = [made |-> TRUE, skills |-> s, out |-> o, view |-> collection,
                    during |-> pc]
         /\ collection' = Queried(collection, o)
    /\ UNCHANGED <<nextKey, pc, table, idx, oldDocs, lastLoad, button,
                   url, jobs, job, links, calls, shown, boot>>

----------------------------------------------------------------------------
(* query_links on its own: any persisted collection, any skills argument *)

InitQuery ==
    /\ \E rows \in SeqsUpTo(Rows, MaxDocs) :
         /\ collection = DocsOf(rows, Len(rows), 1)
         /\ nextKey = Len(rows) + 1
    /\ pc = "idle"
    /\ table = NoTable
    /\ idx = 0
    /\ oldDocs = <<>>
    /\ lastLoad = "none"
    /\ button = FALSE
    /\ url = FALSE
    /\ jobs = <<>>
    /\ job = 0
    /\ links = <<>>
    /\ calls = <<>>
    /\ shown = {}
    /\ boot = NoBoot
    /\ obs = NoObs

\* one call of query_links
QueryCall == ~obs.made /\ Query(SkillsInputs(MaxSkills))

NextQuery == QueryCall

SpecQuery == InitQuery /\ [][NextQuery]_vars

----------------------------------------------------------------------------
(* Portfolio(): the constructor and load_portfolio *)

\* the CSV at file_path: absent, or a table
DiskFiles(n) ==
    {[exists |-> FALSE, rows |-> <<>>]}
    \cup {[exists |-> TRUE, rows |-> r] : r \in SeqsUpTo(Rows, n)}

\* self.data: the default table is written first when the file is absent
ReadData(disk) == IF disk.exists THEN disk.rows ELSE DefaultTable

\* fault: the count check is dropped, every construction loads the table
BootLoadsAlways(coll) == TRUE

\* if self.collection.count() == 0
BootLoads(coll) == Len(coll) = 0

\* the collection after load_portfolio added the first n rows of data
\* (n < Len(data): an add raised and the except clause ended the loop)
Bootstrapped(coll, data, n, k) ==
    IF BootLoads(coll) THEN coll \o DocsOf(data, n, k) ELSE coll

\* llm = Chain(); portfolio = Portfolio(): a script run starts
Boot ==
    /\ pc = "idle"
    /\ nextKey <= MaxKeys
    /\ \E disk \in DiskFiles(MaxRows) :
         LET data == ReadData(disk)
         IN  \E n \in 0..Len(data) :
               /\ collection' = Bootstrapped(collection, data, n, nextKey)
               /\ nextKey' = IF BootLoads(collection) THEN nextKey + n ELSE nextKey
               /\ boot' = [made |-> TRUE, data |-> data, was |-> collection,
                           ok |-> n = Len(data)]
    /\ pc' = "booted"
    /\ table' = NoTable
    /\ idx' = 0
    /\ oldDocs' = <<>>
    /\ button' = FALSE
    /\ url' = FALSE
    /\ jobs' = <<>>
    /\ job' = 0
    /\ links' = <<>>
    /\ calls' = <<>>
    /\ shown' = {}
    /\ obs' = NoObs
    /\ UNCHANGED lastLoad

----------------------------------------------------------------------------
(* create_streamlit_app, the Email Synthesizer tab *)

\* st.session_state.portfolio_data: None, or what was committed
PortfolioData(n) == {NoTable, NotAFrame} \cup Frames(n)

\* the two st.stop() guards, and the call of load_custom_portfolio
Tab2 ==
    /\ pc = "booted"
    /\ \E ctx \in BOOLEAN, data \in PortfolioData(MaxRows) :
         IF ~ctx
         THEN /\ shown' = {"Entity Parameters Not Initialized"}
              /\ pc' = "idle"
              /\ UNCHANGED <<table, oldDocs>>
         ELSE IF data.kind = "none"
         THEN /\ shown' = {"Portfolio Not Synchronized"}
              /\ pc' = "idle"
              /\ UNCHANGED <<table, oldDocs>>
         ELSE /\ pc' = "load_check"
              /\ table' = data
              /\ oldDocs' = collection
              /\ UNCHANGED shown
    /\ boot' = NoBoot
    /\ UNCHANGED <<collection, nextKey, idx, lastLoad, button, url, jobs, job, links,
                   calls>>
    /\ obs' = NoObs

----------------------------------------------------------------------------
(* load_custom_portfolio *)

Range(f) == {f[i] : i \in DOMAIN f}

\* fault: the columns are compared as a set, their order is not checked
SchemaOkAnyOrder(t) == t.kind = "frame" /\ Range(t.columns) = Range(GoodColumns)

\* isinstance(portfolio_data, pd.DataFrame) and list(columns) == ['Techstack', 'Links']
SchemaOk(t) == t.kind = "frame" /\ t.columns = GoodColumns

\* the two checks; a ValueError reaches main.py's except clause
LoadCheck ==
    /\ pc = "load_check"
    /\ IF SchemaOk(table)
       THEN /\ pc' = "load_delete"
            /\ UNCHANGED <<lastLoad, shown>>
       ELSE /\ pc' = "loaded"
            /\ lastLoad' = "raised"
            /\ shown' = shown \cup {"Portfolio Integration Error"}
    /\ UNCHANGED <<collection, nextKey, table, idx, oldDocs, button, url, jobs, job,
                   links, calls, boot>>
    /\ obs' = NoObs

\* self.collection.get()["ids"]
ExistingIds(coll) == Ids(coll)

\* fault: only the first of the ids is deleted
DeleteOne(coll, ids) ==
    IF coll = <<>> THEN coll ELSE SelectSeq(coll, LAMBDA d : d.id # coll[1].id)

\* self.collection.delete(ids=ids)
Delete(coll, ids) == SelectSeq(coll, LAMBDA d : d.id \notin ids)

\* fault: the test is inverted, a collection that holds documents is not cleared
ClearedWhenEmpty(coll) ==
    LET existing_ids == ExistingIds(coll)
    IN  IF existing_ids = {} THEN Delete(coll, existing_ids) ELSE coll

\* the collection after the "Clear existing collection" step
Cleared(coll) ==
    LET existing_ids == ExistingIds(coll)
    IN  IF existing_ids # {} THEN Delete(coll, existing_ids) ELSE coll

LoadDelete ==
    /\ pc = "load_delete"
    /\ collection' = Cleared(collection)
    /\ pc' = "load_insert"
    /\ idx' = 1
    /\ UNCHANGED <<nextKey, table, oldDocs, lastLoad, button, url, jobs, job, links,
                   calls, shown, boot>>
    /\ obs' = NoObs

\* self.collection.add(ids=[str(uuid.uuid4())], documents=[document], metadatas=[...])
Added(coll, k, row) == Append(coll, Doc(k, row))

LoadInsert ==
    /\ pc = "load_insert"
    /\ idx <= Len(table.rows)
    /\ collection' = Added(collection, nextKey, table.rows[idx])
    /\ nextKey' = nextKey + 1
    /\ idx' = idx + 1
    /\ UNCHANGED <<pc, table, oldDocs, lastLoad, button, url, jobs, job, links, calls,
                   shown, boot>>
    /\ obs' = NoObs

\* print("Custom portfolio loaded successfully.")
LoadDone ==
    /\ pc = "load_insert"
    /\ idx > Len(table.rows)
    /\ pc' = "loaded"
    /\ lastLoad' = "ok"
    /\ UNCHANGED <<collection, nextKey, table, idx, oldDocs, button, url, jobs, job,
                   links, calls, shown, boot>>
    /\ obs' = NoObs

\* a store call (get, delete, add) raises: except Exception: print, traceback, return
LoadStoreError ==
    /\ \/ pc = "load_delete"
       \/ pc = "load_insert" /\ idx <= Len(table.rows)
    /\ pc' = "loaded"
    /\ lastLoad' = "swallowed"
    /\ UNCHANGED <<collection, nextKey, table, idx, oldDocs, button, url, jobs, job,
                   links, calls, shown, boot>>
    /\ obs' = NoObs

----------------------------------------------------------------------------
(* the rest of the tab: the button, the page fetch, the loop over the jobs *)

\* a job record: a dict with or without the key 'skills'
Job(h, s) == [hasSkills |-> h, skills |-> s]

EmptyList == [kind |-> "list", items |-> <<>>]

\* the job records extract_jobs may return
JobRecords ==
    {Job(FALSE, EmptyList),
     Job(TRUE, NullSkills),
     Job(TRUE, [kind |-> "list",
                items |-> <<Entry("str", <<"Python">>), Entry("str", <<SP, "Go", SP>>)>>])}

\* job.get('skills', [])
GetSkills(j) == IF j.hasSkills THEN j.skills ELSE EmptyList

Call(o, i, s, l) == [op |-> o, job |-> i, skills |-> s, links |-> l]

\* which branch of  if generate_email_button: ... else: ...  holds the workflow
RunsWorkflow(b, u) == ~b

\* the two widgets (url_input, generate_email_button) and the if / else on the button
AfterLoad ==
    /\ pc = "loaded"
    /\ \E b \in BOOLEAN, u \in BOOLEAN :
         /\ button' = b
         /\ url' = u
         /\ IF RunsWorkflow(b, u)
            THEN /\ pc' = "fetch"
                 /\ UNCHANGED shown
            ELSE /\ pc' = "idle"
                 /\ shown' = IF b /\ ~u
                             THEN shown \cup {"Target Web Page URL Required"}
                             ELSE shown
    /\ table' = NoTable
    /\ oldDocs' = <<>>
    /\ idx' = 0
    /\ UNCHANGED <<collection, nextKey, lastLoad, jobs, job, links, calls, boot>>
    /\ obs' = NoObs

\* WebBaseLoader([url_input]).load(), clean_text: the page is fetched
Fetch ==
    /\ pc = "fetch"
    /\ url
    /\ calls' = Append(calls, Call("fetch", 0, EmptyList, <<>>))
    /\ pc' = "extract"
    /\ UNCHANGED <<collection, nextKey, table, idx, oldDocs, lastLoad, button, url,
                   jobs, job, links, shown, boot>>
    /\ obs' = NoObs

\* the fetch raises (always so for an empty URL): the outer except clause, and
\* the st.error(traceback.format_exc()) that follows it
FetchError ==
    /\ pc = "fetch"
    /\ calls' = Append(calls, Call("fetch", 0, EmptyList, <<>>))
    /\ shown' = shown \cup {"Quantum Synthesis Error", "traceback"}
    /\ pc' = "idle"
    /\ UNCHANGED <<collection, nextKey, table, idx, oldDocs, lastLoad, button, url,
                   jobs, job, links, boot>>
    /\ obs' = NoObs

\* jobs = llm.extract_jobs(data): a list of job records, [] when extraction failed
ExtractJobs ==
    /\ pc = "extract"
    /\ \E js \in SeqsUpTo(JobRecords, MaxJobs) :
         /\ jobs' = js
         /\ shown' = IF js = <<>>
                     THEN shown \cup {"No jobs could be extracted"}
                     ELSE shown
    /\ calls' = Append(calls, Call("extract_jobs", 0, EmptyList, <<>>))
    /\ job' = 1
    /\ pc' = "loop"
    /\ UNCHANGED <<collection, nextKey, table, idx, oldDocs, lastLoad, button, url,
                   links, boot>>
    /\ obs' = NoObs

\* skills = job.get('skills', []); links = portfolio.query_links(skills)
LoopQuery ==
    /\ pc = "loop"
    /\ job <= Len(jobs)
    /\ LET skills == GetSkills(jobs[job])
       IN  \E o \in QueryLinks(collection, skills) :
             /\ calls' = Append(calls, Call("query_links", job, skills, o.links))
             /\ collection' = Queried(collection, o)
             /\ IF o.raised
                THEN /\ shown' = shown \cup {"Quantum Synthesis Error", "traceback"}
                     /\ pc' = "idle"
                     /\ UNCHANGED links
                ELSE /\ links' = o.links
                     /\ pc' = "mail"
                     /\ UNCHANGED shown
    /\ UNCHANGED <<nextKey, table, idx, oldDocs, lastLoad, button, url,
                   jobs, job, boot>>
    /\ obs' = NoObs

\* fault: write_mail is handed an empty list
MailLinksEmpty(l) == <<>>

\* the value handed to write_mail as its links argument
MailLinks(l) == l

\* email = llm.write_mail(job, links, st.session_state.context)
LoopMail ==
    /\ pc = "mail"
    /\ calls' = Append(calls, Call("write_mail", job, GetSkills(jobs[job]), MailLinks(links)))
    /\ job' = job + 1
    /\ pc' = "loop"
    /\ UNCHANGED <<collection, nextKey, table, idx, oldDocs, lastLoad, button, url,
                   jobs, links, shown, boot>>
    /\ obs' = NoObs

\* the for loop is over; st.error(traceback.format_exc()) ends the else branch
LoopEnd ==
    /\ pc = "loop"
    /\ job > Len(jobs)
    /\ shown' = shown \cup {"traceback"}
    /\ pc' = "idle"
    /\ UNCHANGED <<collection, nextKey, table, idx, oldDocs, lastLoad, button, url,
                   jobs, job, links, calls, boot>>
    /\ obs' = NoObs

----------------------------------------------------------------------------
(* the program: script runs of one session, and the queries of another *)

\* the skills another session queries with
OtherSkills == {[kind |-> "list", items |-> <<Entry("str", <<"Python">>)>>]}

OtherQuery == ~obs.made /\ Query(OtherSkills)

Init ==
    /\ collection = <<>>
    /\ nextKey = 1
    /\ pc = "idle"
    /\ table = NoTable
    /\ idx = 0
    /\ oldDocs = <<>>
    /\ lastLoad = "none"
    /\ button = FALSE
    /\ url = FALSE
    /\ jobs = <<>>
    /\ job = 0
    /\ links = <<>>
    /\ calls = <<>>
    /\ shown = {}
    /\ boot = NoBoot
    /\ obs = NoObs

Next ==
    \/ Boot
    \/ Tab2
    \/ LoadCheck
    \/ LoadDelete
    \/ LoadInsert
    \/ LoadDone
    \/ LoadStoreError
    \/ AfterLoad
    \/ Fetch
    \/ FetchError
    \/ ExtractJobs
    \/ LoopQuery
    \/ LoopMail
    \/ LoopEnd
    \/ OtherQuery

Spec == Init /\ [][Next]_vars

----------------------------------------------------------------------------
(* Properties *)

\* the rows a sequence of documents was rendered from, as (document, techstack)
Contents(docs) ==
    [i \in 1..Len(docs) |-> <<docs[i].document, docs[i].techstack>>]

RowContents(rows) == [i \in 1..Len(rows) |-> <<Render(rows[i]), rows[i].Techstack>>]

WorkflowOps == {"query_links", "write_mail"}

\* C1: when load_custom_portfolio(T) has returned after its last insert (no
\* store call raised), the collection holds exactly one document per row of T,
\* in T's order, under distinct keys, and none of the documents it held when
\* the call began (from an earlier table or from the bootstrap load).
C1_ReplaceIsExact ==
    (pc = "loaded" /\ lastLoad = "ok") =>
        /\ Len(collection) = Len(table.rows)
        /\ Contents(collection) = RowContents(table.rows)
        /\ Cardinality(Ids(collection)) = Len(collection)
        /\ Ids(collection) \cap Ids(oldDocs) = {}

\* C1 witness: a table of two rows has replaced a collection of another size
C1_Witness ==
    /\ pc = "loaded"
    /\ lastLoad = "ok"
    /\ Len(table.rows) = 2
    /\ Len(oldDocs) = 1
    /\ Len(collection) = 2

\* C2: load_custom_portfolio on a table whose column list is not exactly
\* <<"Techstack", "Links">> ends with the error raised to the caller, and the
\* collection is then what it was when the call began (documents and keys).
C2_SchemaErrorLeavesCollection ==
    (pc = "loaded" /\ table.kind = "frame" /\ table.columns # GoodColumns) =>
        /\ lastLoad = "raised"
        /\ collection = oldDocs

\* C2 witness: a table with the two columns in the wrong order was rejected
\* while the collection held documents
C2_Witness ==
    /\ pc = "loaded"
    /\ table.kind = "frame"
    /\ table.columns = <<"Links", "Techstack">>
    /\ table.rows # <<>>
    /\ lastLoad = "raised"
    /\ collection # <<>>

\* an entry the normalisation is meant to discard: no string, or a string that
\* is empty or blank
InvalidEntry(e) == e.kind # "str" \/ Strip(e.val) = <<>>

AllInvalid(skills) ==
    /\ skills.kind = "list"
    /\ \A i \in 1..Len(skills.items) : InvalidEntry(skills.items[i])

\* C3: for a skills list whose entries are all empty strings, blank strings or
\* non-strings (and for the empty list), query_links returns an empty result
\* and issues no query to the store.
C3_InvalidSkillsIssueNoQuery ==
    (obs.made /\ AllInvalid(obs.skills)) =>
        /\ obs.out.issued = <<>>
        /\ obs.out.links = <<>>

\* C4: after a load_custom_portfolio call that failed (the schema error, or a
\* store error during the delete or the inserts), the run makes no query_links
\* and no write_mail call.
C4_FailedLoadHaltsWorkflow ==
    lastLoad \in {"raised", "swallowed"} =>
        \A i \in 1..Len(calls) : calls[i].op \notin WorkflowOps

\* the documents of a ranked list whose own text holds a link
RECURSIVE Parsable(_)
Parsable(ranked) ==
    IF ranked = <<>> THEN <<>>
    ELSE (IF SearchLink(ranked[1].document).found THEN <<ranked[1]>> ELSE <<>>)
         \o Parsable(Tail(ranked))

HasValidSkill(skills) ==
    \E i \in 1..Len(skills.items) : ~InvalidEntry(skills.items[i])

\* C5: for a query with at least one valid skill that the store answers,
\* query_links returns one entry per ranked document whose link can be parsed,
\* in rank order, and the entry's link is the link of that document.
C5_OneEntryPerParsableDocument ==
    (obs.made /\ HasValidSkill(obs.skills) /\ ~obs.out.failed) =>
        LET kept == Parsable(obs.out.ranked)
        IN  /\ Len(obs.out.links) = Len(kept)
            /\ \A i \in 1..Len(kept) :
                 i <= Len(obs.out.links)
                 => obs.out.links[i] = SearchLink(kept[i].document).group

\* C6: for a skills argument that is one string or a list of entries, and any
\* collection, query_links does not raise; when the store query fails it
\* returns the empty list.
C6_QueryNeverRaises ==
    obs.made =>
        /\ ~obs.out.raised
        /\ obs.out.failed => obs.out.links = <<>>

\* C6 witness: the store query of a call with a valid skill failed
C6_Witness ==
    /\ obs.made
    /\ obs.out.failed
    /\ obs.out.issued # <<>>
    /\ obs.view # <<>>
    /\ ~obs.out.raised

\* C7: whatever the size of the collection and the skills, query_links returns
\* at most 3 links and each of them is a non-empty string.
C7_ResultCapped ==
    obs.made =>
        /\ Len(obs.out.links) <= 3
        /\ \A i \in 1..Len(obs.out.links) : obs.out.links[i] # <<>>

\* C7 witness: a query on a collection of more than 3 documents returned a link
C7_Witness ==
    /\ obs.made
    /\ Len(obs.view) > 3
    /\ Len(obs.out.ranked) = 3
    /\ obs.out.links # <<>>

\* C8: constructing Portfolio on a collection that holds a document changes
\* nothing in it, whatever the table on disk; an empty collection gets one
\* document per row of the table when no add raises.
C8_BootstrapIdempotent ==
    (pc = "booted" /\ boot.made) =>
        /\ boot.was # <<>> => collection = boot.was
        /\ (boot.was = <<>> /\ boot.ok) =>
               /\ Contents(collection) = RowContents(boot.data)
               /\ Cardinality(Ids(collection)) = Len(boot.data)

\* C8 witness: Portfolio was constructed over a collection whose documents are
\* not those of the table on disk
C8_Witness ==
    /\ pc = "booted"
    /\ boot.made
    /\ boot.was # <<>>
    /\ boot.data # <<>>
    /\ Contents(boot.was) # RowContents(boot.data)
    /\ collection = boot.was

\* C9: between the delete step and the end of the insert loop nothing keeps
\* another session's query_links out (it has just read the collection, or it
\* can), and the collection it reads then holds none of the old documents and
\* only the rows inserted so far, fewer than the new table has.
C9_ReplaceWindowIsOpen ==
    (pc = "load_insert" /\ idx <= Len(table.rows)) =>
        /\ Ids(collection) \cap Ids(oldDocs) = {}
        /\ Len(collection) = idx - 1
        /\ Contents(collection) = RowContents(SubSeq(table.rows, 1, idx - 1))
        /\ obs.made => (obs.view = collection /\ obs.during = "load_insert")
        /\ ~obs.made => ENABLED OtherQuery

\* C9 witness: a query of another session read a collection that is neither the
\* old document set nor the new one: the old documents gone, one of two new
\* rows present
C9_Witness ==
    /\ pc = "load_insert"
    /\ obs.made
    /\ obs.during = "load_insert"
    /\ oldDocs # <<>>
    /\ Len(table.rows) = 2
    /\ Len(obs.view) = 1
    /\ Ids(obs.view) \cap Ids(oldDocs) = {}
    /\ ~obs.out.failed
    /\ obs.out.ranked = obs.view

\* the run went through the whole for loop without an exception
LoopCompleted ==
    /\ pc = "idle"
    /\ \E i \in 1..Len(calls) : calls[i].op = "extract_jobs"
    /\ "Quantum Synthesis Error" \notin shown

\* C10: every write_mail call of a run comes right after the query_links call
\* for the same job, which was made with that job's 'skills' (the empty list
\* when absent), and receives the links that call returned; a run whose loop
\* completes has made both calls for every job, in job order; no job, no call.
C10_QueryFeedsMail ==
    /\ \A i \in 1..Len(calls) :
         /\ calls[i].op = "write_mail" =>
              /\ i > 1
              /\ calls[i - 1].op = "query_links"
              /\ calls[i - 1].job = calls[i].job
              /\ calls[i].links = calls[i - 1].links
         /\ calls[i].op = "query_links" =>
              /\ calls[i].job \in 1..Len(jobs)
              /\ calls[i].skills = GetSkills(jobs[calls[i].job])
    /\ jobs = <<>> => \A i \in 1..Len(calls) : calls[i].op \notin WorkflowOps
    /\ LoopCompleted =>
         /\ Len(calls) = 2 + 2 * Len(jobs)
         /\ \A j \in 1..Len(jobs) :
              /\ calls[2 * j + 1].op = "query_links" /\ calls[2 * j + 1].job = j
              /\ calls[2 * j + 2].op = "write_mail" /\ calls[2 * j + 2].job = j

\* C10 witness: a run of two jobs completed and handed write_mail a link
C10_Witness ==
    /\ LoopCompleted
    /\ Len(jobs) = 2
    /\ Len(calls) = 6
    /\ calls[6].op = "write_mail"
    /\ calls[6].links # <<>>

\* C11: the page fetch, job extraction, portfolio query and email generation
\* run only in a run where the Synthesize Email button was pressed with a
\* non-empty URL; a run without a press makes none of these calls, and a
\* press with an empty URL makes none and reports Target Web Page URL Required.
C11_WorkflowOnlyOnPressWithUrl ==
    /\ calls # <<>> => (button /\ url)
    /\ ~button => calls = <<>>
    /\ (button /\ ~url) =>
         /\ calls = <<>>
         /\ "Target Web Page URL Required" \in shown

\* C12: query_links is read-only on the store.  Whatever the skills and the
\* outcome (no valid skill, matches, no match, store failure), the collection
\* after the call holds the same documents under the same keys with the same
\* metadata, in the same order, as the collection the call started on.
C12_QueryLeavesCollection ==
    obs.made => collection = obs.view

\* a call that got three ranked documents and a link out of a full collection
C12_Witness ==
    /\ obs.made
    /\ Len(obs.view) = MaxDocs
    /\ Len(obs.out.ranked) = N_RESULTS
    /\ obs.out.links # <<>>
    /\ Ids(collection) = Ids(obs.view)

====
